---------------------------- MODULE Spec2Model ----------------------------
(***************************************************************************)
(* Model of the two CI scripts of ddblabs-statistics:                      *)
(*   .github/scripts/execute_notebooks.py       (the notebook runner)      *)
(*   .github/scripts/generate_notebooks_page.py (the page generator)       *)
(*                                                                         *)
(* A Python str is a sequence of one-character strings, a pathlib.Path is  *)
(* the sequence of its parts, a text written to a file is a sequence of    *)
(* fragments whose concatenation is the text.                              *)
(***************************************************************************)
EXTENDS Integers, Sequences, FiniteSets, TLC

\* ------------------------------------------------------------------ bounds

\* Largest number of files under the repository root.
MaxFiles == 2

\* Largest number of cells of a notebook document.
MaxCells == 2

\* ----------------------------------------------------------------- strings

\* The printable ASCII characters with code points 32 to 95, in order.
ASCII_32_95 ==
    << " ", "!", "\"", "#", "$", "%", "&", "'", "(", ")", "*", "+", ",", "-", ".", "/",
       "0", "1", "2", "3", "4", "5", "6", "7", "8", "9", ":", ";", "<", "=", ">", "?",
       "@", "A", "B", "C", "D", "E", "F", "G", "H", "I", "J", "K", "L", "M", "N", "O",
       "P", "Q", "R", "S", "T", "U", "V", "W", "X", "Y", "Z", "[", "\\", "]", "^", "_" >>

\* Those with code points 97 to 126 (96, the grave accent, has no TLA+ literal).
ASCII_97_126 ==
    << "a", "b", "c", "d", "e", "f", "g", "h", "i", "j", "k", "l", "m", "n", "o",
       "p", "q", "r", "s", "t", "u", "v", "w", "x", "y", "z", "{", "|", "}", "~" >>

Chars ==
    {ASCII_32_95[k] : k \in 1..Len(ASCII_32_95)}
        \cup {ASCII_97_126[k] : k \in 1..Len(ASCII_97_126)} \cup {"\t", "\n"}

\* ord(c)
OrdTable ==
    [c \in Chars |->
        IF c = "\t" THEN 9
        ELSE IF c = "\n" THEN 10
        ELSE IF \E k \in 1..Len(ASCII_32_95) : ASCII_32_95[k] = c
             THEN 31 + (CHOOSE k \in 1..Len(ASCII_32_95) : ASCII_32_95[k] = c)
        ELSE 96 + (CHOOSE k \in 1..Len(ASCII_97_126) : ASCII_97_126[k] = c)]

Ord(c) == OrdTable[c]

\* str.lower() on one character: "A".."Z" (65..90) to "a".."z" (97..122)
LowerTable ==
    [c \in Chars |-> IF OrdTable[c] >= 65 /\ OrdTable[c] <= 90
                     THEN ASCII_97_126[OrdTable[c] + 32 - 96] ELSE c]

RECURSIVE Lower(_)
\* str.lower()
Lower(s) == IF s = <<>> THEN <<>> ELSE <<LowerTable[Head(s)]>> \o Lower(Tail(s))

RECURSIVE IntStr(_)
\* str(n) for an int
IntStr(n) ==
    IF n < 0 THEN <<"-">> \o IntStr(0 - n)
    ELSE IF n < 10 THEN <<ASCII_32_95[n + 17]>>
    ELSE IntStr(n \div 10) \o <<ASCII_32_95[(n % 10) + 17]>>

\* The characters str.strip() removes (of those that occur in the model).
IsSpace(c) == c \in {" ", "\t", "\n"}

RECURSIVE LStrip(_)
\* str.lstrip()
LStrip(s) == IF s # <<>> /\ IsSpace(Head(s)) THEN LStrip(Tail(s)) ELSE s

RECURSIVE RStrip(_)
\* str.rstrip()
RStrip(s) ==
    IF s # <<>> /\ IsSpace(s[Len(s)]) THEN RStrip(SubSeq(s, 1, Len(s) - 1)) ELSE s

\* str.strip()
Strip(s) == RStrip(LStrip(s))

RECURSIVE LStripChar(_, _)
\* str.lstrip(c) for a single character c
LStripChar(s, c) == IF s # <<>> /\ Head(s) = c THEN LStripChar(Tail(s), c) ELSE s

\* str.startswith(c) for a single character c
StartsWith(s, c) == s # <<>> /\ Head(s) = c

RECURSIVE Split(_, _)
\* str.split(sep) for a single character sep: always at least one piece
Split(s, sep) ==
    IF \E k \in 1..Len(s) : s[k] = sep
    THEN LET k == CHOOSE j \in 1..Len(s) : s[j] = sep /\ \A h \in 1..(j - 1) : s[h] # sep
         IN  <<SubSeq(s, 1, k - 1)>> \o Split(SubSeq(s, k + 1, Len(s)), sep)
    ELSE <<s>>

\* str.splitlines(): like split on the line break, but a final line break
\* opens no empty last line and the empty string has no line.
SplitLines(s) ==
    IF s = <<>> THEN <<>>
    ELSE IF s[Len(s)] = "\n" THEN Split(SubSeq(s, 1, Len(s) - 1), "\n")
    ELSE Split(s, "\n")

RECURSIVE Join(_, _)
\* sep.join(pieces)
Join(pieces, sep) ==
    IF pieces = <<>> THEN <<>>
    ELSE IF Len(pieces) = 1 THEN pieces[1]
    ELSE pieces[1] \o sep \o Join(Tail(pieces), sep)

RECURSIVE StrLess(_, _)
\* s < t for two str: code point order, a proper prefix first
StrLess(s, t) ==
    IF t = <<>> THEN FALSE
    ELSE IF s = <<>> THEN TRUE
    ELSE IF Head(s) = Head(t) THEN StrLess(Tail(s), Tail(t))
    ELSE Ord(Head(s)) < Ord(Head(t))

RECURSIVE fnmatch(_, _)
\* fnmatch.fnmatch(name, pat) on POSIX (normcase is the identity) for
\* patterns of literals, "*" and "?"; "*" also matches "/".
fnmatch(name, pat) ==
    IF pat = <<>> THEN name = <<>>
    ELSE IF Head(pat) = "*"
         THEN fnmatch(name, Tail(pat)) \/ (name # <<>> /\ fnmatch(Tail(name), pat))
    ELSE IF name = <<>> THEN FALSE
    ELSE IF Head(pat) = "?" THEN fnmatch(Tail(name), Tail(pat))
    ELSE Head(name) = Head(pat) /\ fnmatch(Tail(name), Tail(pat))

\* ------------------------------------------------------------------- paths

\* PurePath.as_posix(): the parts joined with "/", the root part "/" kept
as_posix(path) ==
    IF path # <<>> /\ path[1] = <<"/">>
    THEN <<"/">> \o Join(Tail(path), <<"/">>)
    ELSE Join(path, <<"/">>)

\* path.relative_to(base), for a path under base
relative_to(path, base) == SubSeq(path, Len(base) + 1, Len(path))

\* PurePath.stem: the final component without its last suffix
stem(path) ==
    LET name == path[Len(path)]
        dots == {k \in 2..Len(name) : name[k] = "."}
    IN  IF dots = {} \/ name[Len(name)] = "." THEN name
        ELSE SubSeq(name, 1, (CHOOSE k \in dots : \A j \in dots : j <= k) - 1)

\* ------------------------------------------------------- the environment

\* os.getenv(name, default): an environment variable is unset or holds a str
getenv(var, default) == IF var.set THEN var.value ELSE default

Unset == [set |-> FALSE, value |-> <<>>]

EnvValue(s) == [set |-> TRUE, value |-> s]

\* A file that does not exist, and a text file holding s.
NoFile == [exists |-> FALSE, text |-> <<>>]

TextFile(s) == [exists |-> TRUE, text |-> s]

\* Directory and file names of the repositories the model looks at.
ipynb_checkpoints ==
    <<".", "i", "p", "y", "n", "b", "_", "c", "h", "e", "c", "k", "p", "o", "i", "n", "t", "s">>

site == <<"_", "s", "i", "t", "e">>

quarto == <<".", "q", "u", "a", "r", "t", "o">>

git == <<".", "g", "i", "t">>

github == <<".", "g", "i", "t", "h", "u", "b">>

x_ipynb == <<"x", ".", "i", "p", "y", "n", "b">>

\* The files a repository may hold, each by its parts relative to the root:
\* a/x.ipynb, b/x.ipynb, "B/y z.ipynb", .github/n.ipynb, .h/x.ipynb,
\* a/.ipynb_checkpoints/x.ipynb, _site/x.ipynb, .quarto/x.ipynb,
\* a/.git/x.ipynb and a/x.txt.
a_x == << <<"a">>, x_ipynb >>

b_x == << <<"b">>, x_ipynb >>

B_yz == << <<"B">>, <<"y", " ", "z", ".", "i", "p", "y", "n", "b">> >>

github_n == << github, <<"n", ".", "i", "p", "y", "n", "b">> >>

hidden_x == << <<".", "h">>, x_ipynb >>

checkpoint_x == << <<"a">>, ipynb_checkpoints, x_ipynb >>

site_x == << site, x_ipynb >>

quarto_x == << quarto, x_ipynb >>

git_x == << <<"a">>, git, x_ipynb >>

a_txt == << <<"a">>, <<"x", ".", "t", "x", "t">> >>

Files ==
    { a_x, b_x, B_yz, github_n, hidden_x, checkpoint_x, site_x, quarto_x, git_x, a_txt }

\* The directory walks of the repositories of at most MaxFiles files: the files
\* in the order the walk of rglob meets them.
RECURSIVE Walks(_)
Walks(n) ==
    IF n = 0 THEN { <<>> }
    ELSE LET shorter == Walks(n - 1)
         IN  shorter \cup
             { Append(w, f) : w \in {v \in shorter : Len(v) = n - 1},
                              f \in Files } 

Trees == { w \in Walks(MaxFiles) : \A j, k \in 1..Len(w) : j # k => w[j] # w[k] }

\* Where the repository is checked out: /w, or /.w (a hidden directory).
Roots == { << <<"/">>, <<"w">> >>, << <<"/">>, <<".", "w">> >> }

\* Values of NOTEBOOK_EXCLUDE: unset, "a/*.ipynb", " a/*.ipynb ,, */y?z.ipynb".
ExcludeEnvs ==
    { Unset,
      EnvValue(<<"a", "/", "*", ".", "i", "p", "y", "n", "b">>),
      EnvValue(<<" ", "a", "/", "*", ".", "i", "p", "y", "n", "b", " ", ",", ",", " ",
                 "*", "/", "y", "?", "z", ".", "i", "p", "y", "n", "b">>) }

\* .github/notebook-excludes.txt: absent, or "# skip\n\na/*.ipynb\nb/*\n".
ExcludeFiles ==
    { NoFile,
      TextFile(<<"#", " ", "s", "k", "i", "p", "\n", "\n",
                 "a", "/", "*", ".", "i", "p", "y", "n", "b", "\n", "b", "/", "*", "\n">>) }

\* Values of FAIL_FAST: unset, "0", "1", "no".
FailFastEnvs == { Unset, EnvValue(<<"0">>), EnvValue(<<"1">>), EnvValue(<<"n", "o">>) }

\* Exit statuses of the jupyter nbconvert subprocess (negative: killed by a signal).
ReturnCodes == { 0, 1, 2, -9 }

\* ---------------------------------------------------------------- the state

VARIABLES
    script,            \* which of the two scripts this process runs
    REPO_ROOT,         \* the parts of the repository root
    tree,              \* the files under the root, in rglob's order
    NOTEBOOK_EXCLUDE,  \* environment variable
    EXCLUDES_FILE,     \* .github/notebook-excludes.txt
    FAIL_FAST,         \* environment variable
    pc,                \* "start", "loop", "write", "done" (returned), "raised"
    notebooks,         \* main's sorted list of notebooks
    idx,               \* position of the for loop in notebooks
    failures,          \* the runner's list of (rel, msg)
    executed,          \* the notebooks handed to the subprocess, in order
    returncodes,       \* the exit statuses the subprocess ended with, in order
    stdout,            \* the printed lines
    rv,                \* <<>> until main returns, then <<its return value>>
    lines,             \* the generator's list of page lines
    page_file,         \* pages/notebooks.qmd
    read,              \* the notebook files the generator has read, in order
    title_input,       \* notebook_title: the file and path it is called with
    title_result       \* notebook_title: <<>> until it ends, then <<its outcome>>

vars ==
    << script, REPO_ROOT, tree, NOTEBOOK_EXCLUDE, EXCLUDES_FILE, FAIL_FAST, pc,
       notebooks, idx, failures, executed, returncodes, stdout, rv, lines, page_file,
       read, title_input, title_result >>

\* ---------------------------------------------------------------- discovery

RECURSIVE Unique(_, _)
\* The de-duplication loop of _load_exclude_patterns: first occurrences, in order.
Unique(patterns, seen) ==
    IF patterns = <<>> THEN <<>>
    ELSE IF Head(patterns) \in seen THEN Unique(Tail(patterns), seen)
    ELSE <<Head(patterns)>> \o Unique(Tail(patterns), seen \cup {Head(patterns)})

\* The patterns of the environment variable: split at ",", stripped, non-empty.
EnvPatterns(var) ==
    LET env   == Strip(getenv(var, <<>>))
        parts == IF env # <<>> THEN Split(env, ",") ELSE <<>>
        keep(part) == Strip(part) # <<>>
        kept  == SelectSeq(parts, keep)
    IN  [k \in 1..Len(kept) |-> Strip(kept[k])]

\* The patterns of the excludes file: stripped lines, blank and "#" lines dropped.
FilePatterns(file) ==
    LET ls == IF file.exists THEN SplitLines(file.text) ELSE <<>>
        keep(line) == ~(Strip(line) = <<>> \/ StartsWith(Strip(line), "#"))
        kept == SelectSeq(ls, keep)
    IN  [k \in 1..Len(kept) |-> Strip(kept[k])]

_load_exclude_patterns(var, file) ==
    Unique(EnvPatterns(var) \o FilePatterns(file), {})

\* _is_excluded that gives up after the first pattern.
_is_excluded_first_only(repo_relative_posix, patterns) ==
    patterns # <<>> /\ fnmatch(repo_relative_posix, patterns[1])

_is_excluded(repo_relative_posix, patterns) ==
    \E k \in 1..Len(patterns) : fnmatch(repo_relative_posix, patterns[k])

\* root.rglob(pattern): the files of the walk whose name matches, as full paths
rglob(root, walk, pattern) ==
    LET hit(rel) == fnmatch(rel[Len(rel)], pattern)
        hits == SelectSeq(walk, hit)
    IN  [k \in 1..Len(hits) |-> root \o hits[k]]

\* skip_parts without the build directory.
skip_parts_without_site == { ipynb_checkpoints, quarto, git, github }

skip_parts == { ipynb_checkpoints, site, quarto, git, github }

\* any(part in skip_parts for part in path.parts)
HasSkipPart(path) == \E k \in 1..Len(path) : path[k] \in skip_parts

\* any(part.startswith(".") and part not in {".github"} for part in path.parts)
HasHiddenPart(path) ==
    \E k \in 1..Len(path) : StartsWith(path[k], ".") /\ path[k] \notin { github }

\* iter_notebooks of execute_notebooks.py
iter_notebooks(root, walk, var, file) ==
    LET exclude_patterns == _load_exclude_patterns(var, file)
        yielded(path) ==
            /\ ~HasSkipPart(path)
            /\ ~HasHiddenPart(path)
            /\ ~(/\ exclude_patterns # <<>>
                 /\ _is_excluded(as_posix(relative_to(path, root)), exclude_patterns))
    IN  SelectSeq(rglob(root, walk, <<"*", ".", "i", "p", "y", "n", "b">>), yielded)

\* The generator's iter_notebooks without its hidden-folder guard.
page_iter_notebooks_unguarded(root, walk) ==
    LET yielded(path) == ~HasSkipPart(path)
    IN  SelectSeq(rglob(root, walk, <<"*", ".", "i", "p", "y", "n", "b">>), yielded)

\* iter_notebooks of generate_notebooks_page.py
page_iter_notebooks(root, walk) ==
    LET yielded(path) == ~HasSkipPart(path) /\ ~HasHiddenPart(path)
    IN  SelectSeq(rglob(root, walk, <<"*", ".", "i", "p", "y", "n", "b">>), yielded)

\* The sort key without lower().
SortKeyCaseSensitive(p) == as_posix(p)

\* key=lambda p: p.as_posix().lower()
SortKey(p) == Lower(as_posix(p))

\* One step of a stable sort: x goes after every element whose key is not greater.
InsertByKey(s, x) ==
    LET later == {k \in 1..Len(s) : StrLess(SortKey(x), SortKey(s[k]))}
        at    == IF later = {} THEN Len(s) + 1
                 ELSE CHOOSE k \in later : \A j \in later : k <= j
    IN  SubSeq(s, 1, at - 1) \o <<x>> \o SubSeq(s, at, Len(s))

RECURSIVE sorted(_)
\* sorted(s, key=SortKey)
sorted(s) ==
    IF s = <<>> THEN <<>> ELSE InsertByKey(sorted(SubSeq(s, 1, Len(s) - 1)), s[Len(s)])

\* ------------------------------------------------------------- the runner

\* fail_fast read as == "1" instead of != "0".
fail_fast_only_on_1 == getenv(FAIL_FAST, <<"1">>) = <<"1">>

\* fail_fast = os.getenv("FAIL_FAST", "1") != "0"
fail_fast == getenv(FAIL_FAST, <<"1">>) # <<"0">>

FailureMsg(returncode) == <<"Execution failed with exit code ">> \o IntStr(returncode)

\* print(f"- {rel}: {msg}")
FailureLine(f) == <<"- ">> \o as_posix(f[1]) \o <<": ">> \o f[2]

\* Lines 105 to 122 of main: the patterns are printed, the notebooks found.
\* NOTEBOOK_TIMEOUT_SECONDS is unset or holds an integer, so line 105 returns.
RunnerStart ==
    /\ script = "execute_notebooks" /\ pc = "start"
    /\ LET exclude_patterns == _load_exclude_patterns(NOTEBOOK_EXCLUDE, EXCLUDES_FILE)
           shown == IF exclude_patterns # <<>>
                    THEN << <<"Exclude patterns:">> >>
                         \o [k \in 1..Len(exclude_patterns) |->
                                <<"- ">> \o exclude_patterns[k]]
                    ELSE <<>>
           found == sorted(iter_notebooks(REPO_ROOT, tree, NOTEBOOK_EXCLUDE, EXCLUDES_FILE))
       IN  /\ notebooks' = found
           /\ IF found = <<>>
              THEN /\ stdout' = stdout \o shown \o
                        << IF exclude_patterns # <<>>
                           THEN <<"No notebooks found (or all excluded).">>
                           ELSE <<"No notebooks found.">> >>
                   /\ rv' = <<0>>
                   /\ pc' = "done"
              ELSE /\ stdout' = stdout \o shown
                   /\ rv' = rv
                   /\ pc' = "loop"
    /\ idx' = 1
    /\ UNCHANGED << script, REPO_ROOT, tree, NOTEBOOK_EXCLUDE, EXCLUDES_FILE, FAIL_FAST,
                    failures, executed, returncodes, lines, page_file, read, title_input,
                    title_result >>

\* One turn of the for loop: run_notebook returns (exit status 0).
RunNotebookOk ==
    /\ script = "execute_notebooks" /\ pc = "loop" /\ idx <= Len(notebooks)
    /\ LET nb  == notebooks[idx]
           rel == relative_to(nb, REPO_ROOT)
       IN  /\ stdout' = Append(stdout, <<"\n=== Executing: ">> \o as_posix(rel) \o <<" ===">>)
           /\ executed' = Append(executed, nb)
           /\ returncodes' = Append(returncodes, 0)
    /\ idx' = idx + 1
    /\ UNCHANGED << script, REPO_ROOT, tree, NOTEBOOK_EXCLUDE, EXCLUDES_FILE, FAIL_FAST, pc,
                    notebooks, failures, rv, lines, page_file, read, title_input,
                    title_result >>

\* One turn of the for loop: run_notebook raises CalledProcessError.
RunNotebookFails ==
    /\ script = "execute_notebooks" /\ pc = "loop" /\ idx <= Len(notebooks)
    /\ \E returncode \in ReturnCodes \ {0} :
         LET nb  == notebooks[idx]
             rel == relative_to(nb, REPO_ROOT)
             msg == FailureMsg(returncode)
         IN  /\ stdout' = stdout \o
                   << <<"\n=== Executing: ">> \o as_posix(rel) \o <<" ===">>, msg >>
             /\ executed' = Append(executed, nb)
             /\ returncodes' = Append(returncodes, returncode)
             /\ failures' = Append(failures, <<rel, msg>>)
    /\ IF fail_fast
       THEN rv' = <<1>> /\ pc' = "done" /\ idx' = idx
       ELSE rv' = rv /\ pc' = pc /\ idx' = idx + 1
    /\ UNCHANGED << script, REPO_ROOT, tree, NOTEBOOK_EXCLUDE, EXCLUDES_FILE, FAIL_FAST,
                    notebooks, lines, page_file, read, title_input, title_result >>

\* RunnerFinish with the failure list forgotten: main returns 0 after the loop.
RunnerFinishReturnsZero ==
    /\ script = "execute_notebooks" /\ pc = "loop" /\ idx > Len(notebooks)
    /\ stdout' = Append(stdout, <<"\nAll notebooks executed successfully.">>)
    /\ rv' = <<0>>
    /\ pc' = "done"
    /\ UNCHANGED << script, REPO_ROOT, tree, NOTEBOOK_EXCLUDE, EXCLUDES_FILE, FAIL_FAST,
                    notebooks, idx, failures, executed, returncodes, lines, page_file, read,
                    title_input, title_result >>

\* Lines 136 to 143 of main: after the loop.
RunnerFinish ==
    /\ script = "execute_notebooks" /\ pc = "loop" /\ idx > Len(notebooks)
    /\ IF failures # <<>>
       THEN /\ stdout' = stdout \o << <<"\nSome notebooks failed:">> >>
                           \o [k \in 1..Len(failures) |-> FailureLine(failures[k])]
            /\ rv' = <<1>>
       ELSE /\ stdout' = Append(stdout, <<"\nAll notebooks executed successfully.">>)
            /\ rv' = <<0>>
    /\ pc' = "done"
    /\ UNCHANGED << script, REPO_ROOT, tree, NOTEBOOK_EXCLUDE, EXCLUDES_FILE, FAIL_FAST,
                    notebooks, idx, failures, executed, returncodes, lines, page_file, read,
                    title_input, title_result >>

\* ------------------------------------------------------------ JSON values

\* What json.loads returns: None, a bool, an int, a str, a list or a dict
\* (a dict as the sequence of its <<key, value>> items).
JNull == [t |-> "null", v |-> <<>>]

JBool(b) == [t |-> "bool", v |-> b]

JNum(n) == [t |-> "num", v |-> n]

JStr(s) == [t |-> "str", v |-> s]

JList(items) == [t |-> "list", v |-> items]

JObj(items) == [t |-> "dict", v |-> items]

\* a == b for two JSON values
JEq(a, b) == a.t = b.t /\ a.v = b.v

\* hasattr(x, "get"): only a dict has the method
HasGet(x) == x.t = "dict"

\* d.get(key, default) for a dict d
dict_get(d, key, default) ==
    LET at == {k \in 1..Len(d.v) : d.v[k][1] = key}
    IN  IF at = {} THEN default ELSE d.v[CHOOSE k \in at : \A j \in at : j <= k][2]

\* bool(x)
Truthy(x) ==
    CASE x.t = "null" -> FALSE
      [] x.t = "bool" -> x.v
      [] x.t = "num"  -> x.v # 0
      [] OTHER        -> x.v # <<>>

\* Whether "for item in x" starts: a list, a str or a dict; else TypeError
Iterable(x) == x.t \in {"list", "str", "dict"}

\* The items "for item in x" visits: a str's characters, a dict's keys
Items(x) ==
    CASE x.t = "list" -> x.v
      [] x.t = "str"  -> [k \in 1..Len(x.v) |-> JStr(<<x.v[k]>>)]
      [] x.t = "dict" -> [k \in 1..Len(x.v) |-> JStr(x.v[k][1])]

\* str(x) for a scalar x
PyStr(x) ==
    CASE x.t = "str"  -> x.v
      [] x.t = "num"  -> IntStr(x.v)
      [] x.t = "null" -> <<"N", "o", "n", "e">>
      [] x.t = "bool" -> IF x.v THEN <<"T", "r", "u", "e">> ELSE <<"F", "a", "l", "s", "e">>

\* A notebook file on disk: unreadable (read_text raises), not JSON
\* (json.loads raises), or the text of a JSON value.
Unreadable == [state |-> "unreadable", data |-> JNull]

NotJSON == [state |-> "invalid", data |-> JNull]

JSONFile(x) == [state |-> "json", data |-> x]

\* -------------------------------------------------------- notebook_title

\* The outcome of a call: a returned str, or the exception that leaves it.
Returns(s) == [raised |-> "", value |-> s]

Raises(exception) == [raised |-> exception, value |-> <<>>]

k_cells == <<"c", "e", "l", "l", "s">>

k_cell_type == <<"c", "e", "l", "l", "_", "t", "y", "p", "e">>

k_source == <<"s", "o", "u", "r", "c", "e">>

markdown == <<"m", "a", "r", "k", "d", "o", "w", "n">>

\* Lines 55 to 58: the first stripped line that starts with "#", if any.
HeadingLines(ls) ==
    LET heading(line) == StartsWith(Strip(line), "#")
    IN  SelectSeq(ls, heading)

\* The fallback loop without its "if line" test.
AllLines(ls) == ls

\* Lines 60 to 63: the lines that are not blank.
NonEmptyLines(ls) ==
    LET filled(line) == Strip(line) # <<>>
    IN  SelectSeq(ls, filled)

RECURSIVE TitleFromCells(_, _)
\* Lines 47 to 64: the loop over the cells, from the first of `cells` on.
TitleFromCells(cells, path_stem) ==
    IF cells = <<>> THEN Returns(path_stem)
    ELSE LET cell == Head(cells) IN
         IF ~HasGet(cell) THEN Raises("AttributeError")
         ELSE IF ~JEq(dict_get(cell, k_cell_type, JNull), JStr(markdown))
              THEN TitleFromCells(Tail(cells), path_stem)
         ELSE LET got    == dict_get(cell, k_source, JNull)
                  source == IF Truthy(got) THEN got ELSE JList(<<>>)
              IN  IF source.t # "str" /\ ~Iterable(source) THEN Raises("TypeError")
                  ELSE LET ls == IF source.t = "str" THEN SplitLines(source.v)
                                 ELSE [k \in 1..Len(Items(source)) |->
                                          PyStr(Items(source)[k])]
                           headings == HeadingLines(ls)
                           filled   == NonEmptyLines(ls)
                       IN  IF headings # <<>>
                           THEN LET text == Strip(LStripChar(Strip(headings[1]), "#"))
                                IN  Returns(IF text # <<>> THEN text ELSE path_stem)
                           ELSE IF filled # <<>> THEN Returns(Strip(filled[1]))
                           ELSE TitleFromCells(Tail(cells), path_stem)

notebook_title(file, notebook_path) ==
    IF file.state # "json" THEN Returns(stem(notebook_path))
    ELSE IF ~HasGet(file.data) THEN Raises("AttributeError")
    ELSE LET cells == dict_get(file.data, k_cells, JList(<<>>))
         IN  IF ~Iterable(cells) THEN Raises("TypeError")
             ELSE TitleFromCells(Items(cells), stem(notebook_path))

\* -------------------------------------------------------- the generator

\* REPO_SLUG, GITHUB_REPOSITORY, REPO_BRANCH and GITHUB_REF_NAME are unset:
\* the defaults apply.
DEFAULT_REPO_SLUG == "Deutsche-Digitale-Bibliothek/ddblabs-statistics"

DEFAULT_BRANCH == "main"

\* The characters urllib.parse.quote leaves alone with safe="/".
QuoteSafe(c) ==
    \/ Ord(c) >= 48 /\ Ord(c) <= 57
    \/ Ord(c) >= 65 /\ Ord(c) <= 90
    \/ Ord(c) >= 97 /\ Ord(c) <= 122
    \/ c \in {"_", ".", "-", "~", "/"}

HexDigits == <<"0", "1", "2", "3", "4", "5", "6", "7", "8", "9", "A", "B", "C", "D", "E", "F">>

RECURSIVE url_escape_path(_)
\* quote(path): every other character as "%" and its two hex digits
url_escape_path(path) ==
    IF path = <<>> THEN <<>>
    ELSE LET c == Head(path)
         IN  (IF QuoteSafe(c) THEN <<c>>
              ELSE <<"%", HexDigits[(Ord(c) \div 16) + 1], HexDigits[(Ord(c) % 16) + 1]>>)
             \o url_escape_path(Tail(path))

\* s.replace(c, "") for a single character c
Without(s, c) == LET keep(d) == d # c IN SelectSeq(s, keep)

\* s.replace("/", "-")
Dashed(s) == [k \in 1..Len(s) |-> IF s[k] = "/" THEN "-" ELSE s[k]]

\* s.endswith(suffix)
EndsWith(s, suffix) ==
    Len(s) >= Len(suffix) /\ SubSeq(s, Len(s) - Len(suffix) + 1, Len(s)) = suffix

\* Lines 90 to 94: the front matter.
FrontMatter == << <<"---">>, <<"title: \"Notebooks\"">>, <<"---">> >>

\* Line 97.
EmptyState == << <<"Keine Notebooks gefunden.">>, <<>> >>

\* Lines 99 to 104.
Intro ==
    << <<"## Nachnutzen">>, <<>>,
       <<"Hier sind die einzelnen Notebooks mit direkten Start-Links aufgelistet.">>,
       <<>> >>

\* An <a> line of the block; the fixed target, rel and title attributes are
\* not spelled out, and the label of the history link is written in ASCII.
Link(kind, href, label) ==
    <<"<a class=\"btn ", kind, "\" href=\"">> \o href \o <<"\">", label, "</a>">>

\* Lines 106 to 144: the lines of one notebook's block.
Block(title, rel) ==
    LET rel_escaped == url_escape_path(rel)
        rel_html == IF EndsWith(Lower(rel), <<".", "i", "p", "y", "n", "b">>)
                    THEN SubSeq(rel, 1, Len(rel) - 6) \o <<".", "h", "t", "m", "l">>
                    ELSE rel
        page_href == <<"../">> \o url_escape_path(rel_html)
        repo_url == <<"https://github.com/", DEFAULT_REPO_SLUG>>
        github_file == repo_url \o <<"/blob/", DEFAULT_BRANCH, "/">> \o rel_escaped
        raw_file == <<"https://raw.githubusercontent.com/", DEFAULT_REPO_SLUG, "/",
                      DEFAULT_BRANCH, "/">> \o rel_escaped
        colab == <<"https://colab.research.google.com/github/", DEFAULT_REPO_SLUG,
                   "/blob/", DEFAULT_BRANCH, "/">> \o rel_escaped
        binder == <<"https://mybinder.org/v2/gh/", DEFAULT_REPO_SLUG, "/", DEFAULT_BRANCH,
                    "?filepath=">> \o rel_escaped
        nbviewer == <<"https://nbviewer.org/github/", DEFAULT_REPO_SLUG, "/blob/",
                      DEFAULT_BRANCH, "/">> \o rel_escaped
        vscode_clone ==
            <<"vscode://vscode.git/clone?url=",
              "https%3A%2F%2Fgithub.com%2FDeutsche-Digitale-Bibliothek%2Fddblabs-statistics.git">>
        history_id == <<"nb-history-">> \o Dashed(Without(rel_escaped, "%"))
    IN  << <<"### ">> \o title \o <<" <span class=\"nb-filename\">">> \o rel \o <<"</span>">>,
           <<>>,
           <<"::: {.launch-buttons}">>,
           Link("btn-primary", page_href, "Seite"),
           Link("btn-outline-secondary", colab, "Colab"),
           Link("btn-outline-secondary", binder, "Binder"),
           Link("btn-outline-secondary", vscode_clone, "VS Code"),
           Link("btn-outline-secondary js-nbviewer", nbviewer, "nbviewer"),
           Link("btn-outline-secondary js-github", github_file, "GitHub"),
           Link("btn-outline-secondary js-download", raw_file, "Download"),
           <<":::">>,
           <<>>,
           <<"<div class=\"nb-history\" data-repo-slug=\"", DEFAULT_REPO_SLUG,
             "\" data-repo-branch=\"", DEFAULT_BRANCH, "\" data-nb-path=\"">>
               \o rel \o <<"\">">>,
           <<"  <label class=\"form-label\" for=\"">> \o history_id
               \o <<"\">Historischer Stand:</label>">>,
           <<"  <div class=\"nb-history-row\">">>,
           <<"    <input class=\"form-control form-control-sm nb-history-date\" type=\"date\" id=\"">>
               \o history_id \o <<"\" />">>,
           <<"    ">> \o Link("btn-outline-secondary nb-history-open", nbviewer, "Open"),
           <<"    <span class=\"nb-history-status\"></span>">>,
           <<"  </div>">>,
           <<"</div>">>,
           <<>> >>

\* The notebook files the generator may find on disk: a first markdown cell
\* "# My Title\nbody", a notebook of one code cell, a file that is not JSON,
\* and a JSON list.
SampleNotebooks ==
    { JSONFile(JObj(<< <<k_cells, JList(<< JObj(<<
          <<k_cell_type, JStr(markdown)>>,
          <<k_source, JStr(<<"#", " ", "M", "y", " ", "T", "i", "t", "l", "e", "\n",
                             "b", "o", "d", "y">>)>> >>) >>)>> >>)),
      JSONFile(JObj(<< <<k_cells, JList(<< JObj(<<
          <<k_cell_type, JStr(<<"c", "o", "d", "e">>)>>,
          <<k_source, JStr(<<"p", "r", "i", "n", "t", "(", "1", ")">>)>> >>) >>)>> >>)),
      NotJSON,
      JSONFile(JList(<<>>)) }

\* Lines 81 to 104 of main: the notebooks found, the head of the page.
GenStart ==
    /\ script = "generate_notebooks_page" /\ pc = "start"
    /\ LET found == sorted(page_iter_notebooks(REPO_ROOT, tree))
       IN  /\ notebooks' = found
           /\ lines' = FrontMatter \o (IF found = <<>> THEN EmptyState ELSE Intro)
           /\ pc' = IF found = <<>> THEN "write" ELSE "loop"
    /\ idx' = 1
    /\ UNCHANGED << script, REPO_ROOT, tree, NOTEBOOK_EXCLUDE, EXCLUDES_FILE, FAIL_FAST,
                    failures, executed, returncodes, stdout, rv, page_file, read, title_input,
                    title_result >>

\* One turn of the for loop: the notebook is read, its title found, its block added.
GenBlock ==
    /\ script = "generate_notebooks_page" /\ pc = "loop" /\ idx <= Len(notebooks)
    /\ \E file \in SampleNotebooks :
         LET nb    == notebooks[idx]
             rel   == as_posix(relative_to(nb, REPO_ROOT))
             title == notebook_title(file, nb)
         IN  /\ title.raised = ""
             /\ read' = Append(read, file)
             /\ lines' = lines \o Block(title.value, rel)
    /\ idx' = idx + 1
    /\ pc' = IF idx = Len(notebooks) THEN "write" ELSE "loop"
    /\ UNCHANGED << script, REPO_ROOT, tree, NOTEBOOK_EXCLUDE, EXCLUDES_FILE, FAIL_FAST,
                    notebooks, failures, executed, returncodes, stdout, rv, page_file, title_input,
                    title_result >>

\* One turn of the for loop in which notebook_title raises: main ends with the
\* exception, nothing is written.
GenBlockRaises ==
    /\ script = "generate_notebooks_page" /\ pc = "loop" /\ idx <= Len(notebooks)
    /\ \E file \in SampleNotebooks :
         /\ notebook_title(file, notebooks[idx]).raised # ""
         /\ read' = Append(read, file)
    /\ pc' = "raised"
    /\ UNCHANGED << script, REPO_ROOT, tree, NOTEBOOK_EXCLUDE, EXCLUDES_FILE, FAIL_FAST,
                    notebooks, idx, failures, executed, returncodes, stdout, rv, lines, page_file,
                    title_input, title_result >>

\* GenWrite that opens the page for appending.
GenWriteAppends ==
    /\ script = "generate_notebooks_page" /\ pc = "write"
    /\ page_file' = TextFile(page_file.text \o Join(lines, <<"\n">>))
    /\ stdout' = Append(stdout, <<"Wrote ">> \o as_posix(REPO_ROOT) \o <<"/pages/notebooks.qmd">>)
    /\ rv' = <<0>>
    /\ pc' = "done"
    /\ UNCHANGED << script, REPO_ROOT, tree, NOTEBOOK_EXCLUDE, EXCLUDES_FILE, FAIL_FAST,
                    notebooks, idx, failures, executed, returncodes, lines, read, title_input,
                    title_result >>

\* Lines 146 to 149 of main: the page is written over pages/notebooks.qmd.
GenWrite ==
    /\ script = "generate_notebooks_page" /\ pc = "write"
    /\ page_file' = TextFile(Join(lines, <<"\n">>))
    /\ stdout' = Append(stdout, <<"Wrote ">> \o as_posix(REPO_ROOT) \o <<"/pages/notebooks.qmd">>)
    /\ rv' = <<0>>
    /\ pc' = "done"
    /\ UNCHANGED << script, REPO_ROOT, tree, NOTEBOOK_EXCLUDE, EXCLUDES_FILE, FAIL_FAST,
                    notebooks, idx, failures, executed, returncodes, lines, read, title_input,
                    title_result >>

\* ------------------------------------------------------ the specification

\* A page left by an earlier run.
OldPage == TextFile(<<"---", "\n", "old page">>)

\* One run of one of the two scripts, on any repository and environment.
Init ==
    /\ script \in {"execute_notebooks", "generate_notebooks_page"}
    /\ REPO_ROOT \in Roots
    /\ tree \in Trees
    /\ NOTEBOOK_EXCLUDE \in ExcludeEnvs
    /\ EXCLUDES_FILE \in ExcludeFiles
    /\ FAIL_FAST \in (IF script = "execute_notebooks" THEN FailFastEnvs ELSE {Unset})
    /\ page_file \in (IF script = "generate_notebooks_page" THEN {NoFile, OldPage}
                      ELSE {NoFile})
    /\ pc = "start"
    /\ notebooks = <<>>
    /\ idx = 1
    /\ failures = <<>>
    /\ executed = <<>>
    /\ returncodes = <<>>
    /\ stdout = <<>>
    /\ rv = <<>>
    /\ lines = <<>>
    /\ read = <<>>
    /\ title_input = <<>>
    /\ title_result = <<>>

Next ==
    \/ RunnerStart
    \/ RunNotebookOk
    \/ RunNotebookFails
    \/ RunnerFinish
    \/ GenStart
    \/ GenBlock
    \/ GenBlockRaises
    \/ GenWrite

Spec == Init /\ [][Next]_vars

\* --------------------------------------- notebook_title on its own inputs

MarkdownCell(source) == JObj(<< <<k_cell_type, JStr(markdown)>>, <<k_source, source>> >>)

CodeCell ==
    JObj(<< <<k_cell_type, JStr(<<"c", "o", "d", "e">>)>>,
            <<k_source, JStr(<<"#", " ", "c", "o", "d", "e">>)>> >>)

\* The "source" of a markdown cell: "# My Title\nbody", "intro\n## Heading",
\* "plain text", " \n", "#\nReal text", [" \n", 7], 5 and null.
MarkdownSources ==
    { JStr(<<"#", " ", "M", "y", " ", "T", "i", "t", "l", "e", "\n", "b", "o", "d", "y">>),
      JStr(<<"i", "n", "t", "r", "o", "\n", "#", "#", " ", "H", "e", "a", "d", "i", "n", "g">>),
      JStr(<<"p", "l", "a", "i", "n", " ", "t", "e", "x", "t">>),
      JStr(<<" ", "\n">>),
      JStr(<<"#", "\n", "R", "e", "a", "l", " ", "t", "e", "x", "t">>),
      JList(<< JStr(<<" ", "\n">>), JNum(7) >>),
      JNum(5),
      JNull }

\* The cells of a document: markdown cells, a code cell, and a cell that is a
\* JSON string instead of an object.
Cells == { MarkdownCell(source) : source \in MarkdownSources } \cup { CodeCell, JStr(<<"a", "b">>) }

RECURSIVE CellLists(_)
\* The lists of at most n cells.
CellLists(n) ==
    IF n = 0 THEN { <<>> }
    ELSE LET shorter == CellLists(n - 1)
         IN  shorter \cup
             { Append(cs, c) : cs \in {ds \in shorter : Len(ds) = n - 1}, c \in Cells }

\* The notebook files notebook_title is called on: every list of at most
\* MaxCells cells under "cells", and the files that are no notebook: unreadable,
\* not JSON, the JSON values [], null and {}, and "cells" of null, "ab" and 3.
Documents ==
    { JSONFile(JObj(<< <<k_cells, JList(cs)>> >>)) : cs \in CellLists(MaxCells) }
    \cup { Unreadable, NotJSON, JSONFile(JList(<<>>)), JSONFile(JNull), JSONFile(JObj(<<>>)),
           JSONFile(JObj(<< <<k_cells, JNull>> >>)),
           JSONFile(JObj(<< <<k_cells, JStr(<<"a", "b">>)>> >>)),
           JSONFile(JObj(<< <<k_cells, JNum(3)>> >>)) }

\* The paths it is called with: /w/a/x.ipynb and "/w/B/y z.ipynb".
TitlePaths == { << <<"/">>, <<"w">> >> \o a_x, << <<"/">>, <<"w">> >> \o B_yz }

\* notebook_title returns a title.
NotebookTitleReturns ==
    /\ script = "notebook_title" /\ title_result = <<>>
    /\ LET outcome == notebook_title(title_input.file, title_input.path)
       IN  outcome.raised = "" /\ title_result' = <<outcome>>
    /\ UNCHANGED << script, REPO_ROOT, tree, NOTEBOOK_EXCLUDE, EXCLUDES_FILE, FAIL_FAST, pc,
                    notebooks, idx, failures, executed, returncodes, stdout, rv, lines,
                    page_file, read, title_input >>

\* notebook_title is left by an exception.
NotebookTitleRaises ==
    /\ script = "notebook_title" /\ title_result = <<>>
    /\ LET outcome == notebook_title(title_input.file, title_input.path)
       IN  outcome.raised # "" /\ title_result' = <<outcome>>
    /\ UNCHANGED << script, REPO_ROOT, tree, NOTEBOOK_EXCLUDE, EXCLUDES_FILE, FAIL_FAST, pc,
                    notebooks, idx, failures, executed, returncodes, stdout, rv, lines,
                    page_file, read, title_input >>

\* One call of notebook_title, on any of the documents and paths.
InitTitle ==
    /\ script = "notebook_title"
    /\ title_input \in [file : Documents, path : TitlePaths]
    /\ title_result = <<>>
    /\ REPO_ROOT = << <<"/">>, <<"w">> >>
    /\ tree = <<>>
    /\ NOTEBOOK_EXCLUDE = Unset
    /\ EXCLUDES_FILE = NoFile
    /\ FAIL_FAST = Unset
    /\ page_file = NoFile
    /\ pc = "start"
    /\ notebooks = <<>>
    /\ idx = 1
    /\ failures = <<>>
    /\ executed = <<>>
    /\ returncodes = <<>>
    /\ stdout = <<>>
    /\ rv = <<>>
    /\ lines = <<>>
    /\ read = <<>>

NextTitle == NotebookTitleReturns \/ NotebookTitleRaises

SpecTitle == InitTitle /\ [][NextTitle]_vars

\* ------------------------------------------------------------ properties

ranRunner == script = "execute_notebooks"

ranGenerator == script = "generate_notebooks_page"

\* The elements of a sequence.
Range(s) == { s[k] : k \in 1..Len(s) }

\* Fail-fast as the documentation words it: FAIL_FAST unset or not "0".
FailFastEnabled == ~FAIL_FAST.set \/ FAIL_FAST.value # <<"0">>

\* The positions of the subprocess runs that ended with a non-zero exit status.
FailedRuns == { k \in 1..Len(returncodes) : returncodes[k] # 0 }

\* s is in case-insensitive path order.
CaseInsensitiveOrder(s) ==
    \A j, k \in 1..Len(s) :
        j < k => ~StrLess(Lower(as_posix(s[k])), Lower(as_posix(s[j])))

\* C1: when the runner's main has returned, its return value is 0 or 1, and it
\* is 0 exactly when no notebook was found or every subprocess run it made
\* ended with exit status 0.
C1_ExitCode ==
    (ranRunner /\ pc = "done") =>
        /\ rv \in { <<0>>, <<1>> }
        /\ rv = <<0>> <=> (notebooks = <<>> \/ FailedRuns = {})

\* C1 witness: a run of two notebooks, the first succeeded, that returned 1.
C1_Witness ==
    /\ ranRunner /\ pc = "done" /\ rv = <<1>>
    /\ Len(notebooks) = 2 /\ Len(returncodes) = 2 /\ returncodes[1] = 0

\* C2: with fail-fast enabled the notebooks are run in list order, and once a
\* run has failed main has returned 1 and the failed notebook is the last one
\* that was run: no later notebook is attempted.
C2_FailFastStops ==
    (ranRunner /\ FailFastEnabled) =>
        /\ executed = SubSeq(notebooks, 1, Len(executed))
        /\ FailedRuns # {} =>
              /\ pc = "done" /\ rv = <<1>>
              /\ FailedRuns = { Len(executed) }

\* C2 witness: FAIL_FAST is "no", the first of two notebooks failed, the
\* second was never run.
C2_Witness ==
    /\ ranRunner /\ FAIL_FAST = EnvValue(<<"n", "o">>)
    /\ Len(notebooks) = 2 /\ executed = <<notebooks[1]>> /\ FailedRuns = {1}
    /\ pc = "done"

\* The failures list the runs of returncodes must have produced.
RECURSIVE ExpectedFailures(_)
ExpectedFailures(n) ==
    IF n = 0 THEN <<>>
    ELSE ExpectedFailures(n - 1) \o
         (IF returncodes[n] # 0
          THEN << << relative_to(executed[n], REPO_ROOT),
                     <<"Execution failed with exit code ">> \o IntStr(returncodes[n]) >> >>
          ELSE <<>>)

\* The printed lines from the summary's heading on, if it was printed.
SummaryLines ==
    LET at == { k \in 1..Len(stdout) : stdout[k] = <<"\nSome notebooks failed:">> }
    IN  IF at = {} THEN <<>>
        ELSE SubSeq(stdout, (CHOOSE k \in at : TRUE) + 1, Len(stdout))

\* C3: with FAIL_FAST = "0" the notebooks found are run once each in
\* case-insensitive path order whatever failed before, the failure list holds
\* exactly the failed runs in order, and at the end every failure is listed and
\* main returns 1 if and only if there is one.
C3_RunsAll ==
    (ranRunner /\ FAIL_FAST = EnvValue(<<"0">>) /\ pc # "start") =>
        /\ Range(notebooks) =
              Range(iter_notebooks(REPO_ROOT, tree, NOTEBOOK_EXCLUDE, EXCLUDES_FILE))
        /\ \A j, k \in 1..Len(notebooks) : j # k => notebooks[j] # notebooks[k]
        /\ CaseInsensitiveOrder(notebooks)
        /\ executed = SubSeq(notebooks, 1, Len(executed))
        /\ Len(returncodes) = Len(executed)
        /\ failures = ExpectedFailures(Len(returncodes))
        /\ pc = "done" =>
              /\ executed = notebooks
              /\ rv = <<1>> <=> failures # <<>>
              /\ failures # <<>> =>
                    SummaryLines = [k \in 1..Len(failures) |->
                        <<"- ">> \o as_posix(failures[k][1]) \o <<": ">> \o failures[k][2]]

\* C3 witness: FAIL_FAST is "0", "B/y z.ipynb" was met before a/x.ipynb, both
\* were run and failed, and main returned 1.
C3_Witness ==
    /\ ranRunner /\ FAIL_FAST = EnvValue(<<"0">>) /\ pc = "done" /\ rv = <<1>>
    /\ tree = <<B_yz, a_x>>
    /\ Len(executed) = 2 /\ FailedRuns = {1, 2} /\ Len(SummaryLines) = 2

\* The directories C9 names: checkpoint, build and version control.
CheckpointBuildVcs == { ipynb_checkpoints, site, quarto, git }

\* A path with a component that starts with "." and is not .github.
UnderOtherHidden(path) ==
    \E k \in 1..Len(path) : Head(path[k]) = "." /\ path[k] # github

\* The paths rglob("*.ipynb") meets.
Candidates ==
    { REPO_ROOT \o tree[k] : k \in { j \in 1..Len(tree) :
          fnmatch(tree[j][Len(tree[j])], <<"*", ".", "i", "p", "y", "n", "b">>) } }

\* C4 as claimed: after discovery no notebook under a hidden directory other
\* than .github is in the list, and a notebook whose only hidden component is
\* .github, outside the checkpoint, build and version-control directories and
\* matched by no exclude pattern, is in the list.
C4_HiddenExceptAllowed ==
    pc # "start" =>
        \A path \in Candidates :
            /\ UnderOtherHidden(path) => path \notin Range(notebooks)
            /\ ( /\ ~UnderOtherHidden(path)
                 /\ \E k \in 1..Len(path) : path[k] = github
                 /\ \A k \in 1..Len(path) : path[k] \notin CheckpointBuildVcs
                 /\ _load_exclude_patterns(NOTEBOOK_EXCLUDE, EXCLUDES_FILE) = <<>> )
               => path \in Range(notebooks)

\* The generator's list for this repository, and the runner's.
GeneratorList == sorted(page_iter_notebooks(REPO_ROOT, tree))

RunnerList == sorted(iter_notebooks(REPO_ROOT, tree, NOTEBOOK_EXCLUDE, EXCLUDES_FILE))

\* C5 as claimed: whichever script ran, the list it found is the list either
\* discovery routine gives for this repository and these exclude settings.
C5_SameList ==
    pc # "start" => notebooks = RunnerList /\ notebooks = GeneratorList

\* A notebook that one of the loaded exclude patterns matches.
MatchedByPattern(path) ==
    LET patterns == _load_exclude_patterns(NOTEBOOK_EXCLUDE, EXCLUDES_FILE)
    IN  \E k \in 1..Len(patterns) :
            fnmatch(as_posix(relative_to(path, REPO_ROOT)), patterns[k])

\* C5 amended: the generator's list is what the runner's discovery gives with
\* no exclude pattern loaded, and the runner's list is the generator's list
\* with the notebooks matched by a loaded pattern taken out, in the same order.
C5_SameUpToExcludes ==
    pc # "start" =>
        /\ ranGenerator =>
              notebooks = sorted(iter_notebooks(REPO_ROOT, tree, Unset, NoFile))
        /\ ranRunner =>
              LET kept(path) == ~MatchedByPattern(path)
              IN  notebooks = SelectSeq(GeneratorList, kept)

\* C5 witness: the runner found one notebook where the generator's discovery
\* gives two.
C5_Witness ==
    ranRunner /\ pc # "start" /\ Len(notebooks) = 1 /\ Len(GeneratorList) = 2

\* The candidates that pass the skip-directory and hidden-directory stages.
ReachPatternStage ==
    { path \in Candidates :
        /\ \A k \in 1..Len(path) : path[k] \notin CheckpointBuildVcs \cup {github}
        /\ \A k \in 1..Len(path) : Head(path[k]) # "." }

a_star_ipynb == <<"a", "/", "*", ".", "i", "p", "y", "n", "b">>

\* C8: a notebook that reaches the runner's exclude-pattern stage is dropped
\* there exactly when a loaded pattern matches its root-relative path; with no
\* pattern loaded none is dropped, and with the single pattern "a/*.ipynb"
\* a/x.ipynb is dropped and b/x.ipynb is not.
C8_ExcludedIffMatched ==
    (ranRunner /\ pc # "start") =>
        /\ \A path \in ReachPatternStage :
              path \notin Range(notebooks) <=> MatchedByPattern(path)
        /\ _load_exclude_patterns(NOTEBOOK_EXCLUDE, EXCLUDES_FILE) = <<>> =>
              ReachPatternStage \subseteq Range(notebooks)
        /\ ( /\ _load_exclude_patterns(NOTEBOOK_EXCLUDE, EXCLUDES_FILE) = <<a_star_ipynb>>
             /\ REPO_ROOT \o a_x \in ReachPatternStage
             /\ REPO_ROOT \o b_x \in ReachPatternStage )
           => /\ REPO_ROOT \o a_x \notin Range(notebooks)
              /\ REPO_ROOT \o b_x \in Range(notebooks)

\* C8 witness: NOTEBOOK_EXCLUDE is "a/*.ipynb", the repository holds
\* a/x.ipynb and b/x.ipynb, and the runner found only b/x.ipynb.
C8_Witness ==
    /\ ranRunner /\ pc # "start"
    /\ _load_exclude_patterns(NOTEBOOK_EXCLUDE, EXCLUDES_FILE) = <<a_star_ipynb>>
    /\ Range(tree) = {a_x, b_x}
    /\ notebooks = << REPO_ROOT \o b_x >>

\* C9: in either script no notebook of the list has a path component
\* .ipynb_checkpoints, _site, .quarto or .git, at any depth.
C9_NoSkippedDirectory ==
    pc # "start" =>
        \A n \in 1..Len(notebooks) :
            \A k \in 1..Len(notebooks[n]) : notebooks[n][k] \notin CheckpointBuildVcs

\* C9 witness: the repository holds a/.ipynb_checkpoints/x.ipynb and
\* a/x.ipynb, and only the latter was found.
C9_Witness ==
    /\ pc # "start" /\ Range(tree) = {checkpoint_x, a_x}
    /\ notebooks = << REPO_ROOT \o a_x >>

\* The positions of the block headings among the lines.
HeadingPositions(ls) == { k \in 1..Len(ls) : ls[k] # <<>> /\ ls[k][1] = "### " }

RECURSIVE Ascending(_)
\* A set of numbers as the ascending sequence.
Ascending(S) ==
    IF S = {} THEN <<>>
    ELSE LET least == CHOOSE k \in S : \A j \in S : k <= j
         IN  <<least>> \o Ascending(S \ {least})

\* The text pieces of a file split at its line breaks.
FileLines(file) == Split(file.text, "\n")

\* C10: when the generator's main has returned, pages/notebooks.qmd holds the
\* assembled lines and nothing of what it held before: the front matter first,
\* then one block heading per notebook found, in case-insensitive path order,
\* each with the title notebook_title gave for that notebook's file and the
\* notebook's repository-relative path; with no notebook found the page holds
\* the empty-state message and no block.
C10_PageBlocks ==
    (ranGenerator /\ pc = "done") =>
        LET page  == FileLines(page_file)
            heads == Ascending(HeadingPositions(page))
        IN  /\ page_file.exists
            /\ SubSeq(page, 1, 3) = << <<"---">>, <<"title: \"Notebooks\"">>, <<"---">> >>
            /\ Range(notebooks) = Range(page_iter_notebooks(REPO_ROOT, tree))
            /\ CaseInsensitiveOrder(notebooks)
            /\ Len(heads) = Len(notebooks)
            /\ Len(read) = Len(notebooks)
            /\ \A k \in 1..Len(heads) :
                  page[heads[k]] =
                      <<"### ">> \o notebook_title(read[k], notebooks[k]).value
                        \o <<" <span class=\"nb-filename\">">>
                        \o as_posix(relative_to(notebooks[k], REPO_ROOT)) \o <<"</span>">>
            /\ notebooks = <<>> <=> (\E k \in 1..Len(page) : page[k] = <<"Keine Notebooks gefunden.">>)

\* C10 witness: a page of two blocks, written over an older page's place, whose
\* notebooks were met in the other order.
C10_Witness ==
    /\ ranGenerator /\ pc = "done" /\ tree = <<B_yz, a_x>>
    /\ Cardinality(HeadingPositions(FileLines(page_file))) = 2
    /\ read[1] # read[2]

\* ------------------------------------------- properties of notebook_title

\* The call has ended, and the outcome it ended with.
titleEnded == script = "notebook_title" /\ title_result # <<>>

Outcome == title_result[1]

\* The file is a JSON object whose "cells" is a list.
HasCellList(file) ==
    /\ file.state = "json" /\ file.data.t = "dict"
    /\ dict_get(file.data, k_cells, JNull).t = "list"

\* The markdown cells of such a file, in document order.
MarkdownCells(file) ==
    LET isMarkdown(cell) ==
            cell.t = "dict" /\ JEq(dict_get(cell, k_cell_type, JNull), JStr(markdown))
    IN  SelectSeq(dict_get(file.data, k_cells, JNull).v, isMarkdown)

\* The lines of a markdown cell: of a str source its lines, of a list source
\* its items, none otherwise.
CellLines(cell) ==
    LET source == dict_get(cell, k_source, JNull)
    IN  IF source.t = "str" THEN SplitLines(source.v)
        ELSE IF source.t = "list" THEN [k \in 1..Len(source.v) |-> PyStr(source.v[k])]
        ELSE <<>>

\* The positions of the lines that start with "#" once trimmed, and of the
\* lines that are not blank.
HeadingAt(ls) == { k \in 1..Len(ls) : Strip(ls[k]) # <<>> /\ Head(Strip(ls[k])) = "#" }

FilledAt(ls) == { k \in 1..Len(ls) : Strip(ls[k]) # <<>> }

Least(S) == CHOOSE k \in S : \A j \in S : k <= j

\* A heading line with its markers stripped, trimmed.
HeadingText(line) == Strip(LStripChar(Strip(line), "#"))

\* C6 as claimed: notebook_title never ends with an exception, and for a file
\* that is unreadable, not JSON, or JSON without a list of cell objects under
\* "cells" of an object it returns the filename stem.
C6_NeverRaises ==
    titleEnded =>
        /\ Outcome.raised = ""
        /\ (title_input.file.state # "json" \/ title_input.file.data.t # "dict")
               => Outcome.value = stem(title_input.path)

\* C7 as claimed: for a notebook the first markdown cell supplies the title,
\* its first heading line with the markers stripped and trimmed, else its first
\* non-empty line; with no line in any markdown cell the title is the stem.
C7_FirstMarkdownCell ==
    (titleEnded /\ Outcome.raised = "" /\ HasCellList(title_input.file)) =>
        LET md == MarkdownCells(title_input.file)
            ls == CellLines(md[1])
        IN  /\ (md # <<>> /\ HeadingAt(ls) # {})
                   => Outcome.value = HeadingText(ls[Least(HeadingAt(ls))])
            /\ (md # <<>> /\ HeadingAt(ls) = {} /\ FilledAt(ls) # {})
                   => Outcome.value = Strip(ls[Least(FilledAt(ls))])
            /\ (\A k \in 1..Len(md) : FilledAt(CellLines(md[k])) = {})
                   => Outcome.value = stem(title_input.path)

\* C7 amended: the first markdown cell, in document order, that has a
\* non-blank line supplies the title: its first heading line with the markers
\* stripped and trimmed, or the stem when nothing is left of that line, else its
\* first non-empty line; with no such cell the title is the stem.
C7_FirstUsableMarkdownCell ==
    (titleEnded /\ Outcome.raised = "" /\ HasCellList(title_input.file)) =>
        LET md     == MarkdownCells(title_input.file)
            usable == { k \in 1..Len(md) : FilledAt(CellLines(md[k])) # {} }
            ls     == CellLines(md[Least(usable)])
        IN  IF usable = {} THEN Outcome.value = stem(title_input.path)
            ELSE IF HeadingAt(ls) # {}
                 THEN LET text == HeadingText(ls[Least(HeadingAt(ls))])
                      IN  Outcome.value = IF text # <<>> THEN text
                                          ELSE stem(title_input.path)
            ELSE Outcome.value = Strip(ls[Least(FilledAt(ls))])

\* C7 witness: a code cell, then the markdown cell "# My Title\nbody", gave
\* the title "My Title".
C7_Witness ==
    /\ titleEnded
    /\ title_input.file = JSONFile(JObj(<< <<k_cells, JList(<< CodeCell,
           MarkdownCell(JStr(<<"#", " ", "M", "y", " ", "T", "i", "t", "l", "e", "\n",
                               "b", "o", "d", "y">>)) >>)>> >>))
    /\ Outcome = Returns(<<"M", "y", " ", "T", "i", "t", "l", "e">>)

=============================================================================
